---- MODULE Spec2Model ----
(***************************************************************************)
(* Model of src/fetch_channel_logos.py: the logo resolution pipeline       *)
(* fetch_channel_logos() and the helpers it calls.                         *)
(*                                                                         *)
(* Python strings are tuples of tokens (mostly single characters), so      *)
(* strip(), lower(), slicing and the regular expressions of the source     *)
(* are computed rather than assumed.  Python's None is the tuple None.     *)
(* The network, the image decoder and the disk are the environment: each   *)
(* call's response is chosen with \E from a small set that includes the    *)
(* exceptions the call can raise.                                          *)
(***************************************************************************)
EXTENDS Integers, Sequences, FiniteSets, TLC

\* ------------------------------------------------------------------ bounds
MaxRows == 2      \* longest roster (rows of channels.csv)
MaxRuns == 2      \* consecutive runs of fetch_channel_logos on one directory
MaxItems == 2     \* longest result list of one code search

\* --------------------------------------------------------- program constants
TARGET_PX == 128

\* ------------------------------------------------------------ string values
None == <<"<None>">>
Raised == <<"<raised>">>

Truthy(x) == x # None /\ x # <<>>

\* `a or b`
Or(a, b) == IF Truthy(a) THEN a ELSE b

UpperChars == <<"A","B","C","D","E","F","G","H","I","J","K","L","M",
                "N","O","P","Q","R","S","T","U","V","W","X","Y","Z">>
LowerChars == <<"a","b","c","d","e","f","g","h","i","j","k","l","m",
                "n","o","p","q","r","s","t","u","v","w","x","y","z">>
DigitChars == {"0","1","2","3","4","5","6","7","8","9"}
SpaceChars == {" ", "\t"}

IsUpper(c) == \E i \in 1..26 : UpperChars[i] = c
IsLower(c) == \E i \in 1..26 : LowerChars[i] = c
IsDigit(c) == c \in DigitChars

\* str.lower()
LowerChar(c) == IF IsUpper(c) THEN LowerChars[CHOOSE i \in 1..26 : UpperChars[i] = c] ELSE c
Lower(s) == [i \in 1..Len(s) |-> LowerChar(s[i])]

\* str.strip()
RECURSIVE LStrip(_)
LStrip(s) == IF s # <<>> /\ Head(s) \in SpaceChars THEN LStrip(Tail(s)) ELSE s
RECURSIVE RStrip(_)
RStrip(s) == IF s # <<>> /\ s[Len(s)] \in SpaceChars THEN RStrip(SubSeq(s, 1, Len(s) - 1)) ELSE s
Strip(s) == RStrip(LStrip(s))

\* s[:n]
Prefix(s, n) == SubSeq(s, 1, IF Len(s) < n THEN Len(s) ELSE n)

\* str.replace(" ", "_")
SpaceToUnderscore(s) == [i \in 1..Len(s) |-> IF s[i] = " " THEN "_" ELSE s[i]]

\* urllib.parse.quote: letters, digits and "_.-~/" stay, the rest is percent-encoded
QuoteChar(c) ==
    IF IsUpper(c) \/ IsLower(c) \/ IsDigit(c) \/ c \in {"_", ".", "-", "~", "/"}
    THEN c
    ELSE IF c = " " THEN "%20" ELSE IF c = "&" THEN "%26" ELSE "%3F"
Quote(s) == [i \in 1..Len(s) |-> QuoteChar(s[i])]

\* ------------------------------------------------ pure helpers of the source
\* `sub in s`
Contains(s, sub) ==
    \E i \in 1..(Len(s) - Len(sub) + 1) : SubSeq(s, i, i + Len(sub) - 1) = sub

\* str.replace on whole tokens of a URL
ReplaceToken(s, old, new) == [i \in 1..Len(s) |-> IF s[i] = old THEN new ELSE s[i]]

BASE_COMMONS_FILEPATH == <<"https://commons.wikimedia.org/wiki/Special:FilePath/">>

commons_file_url(filename, width) ==
    BASE_COMMONS_FILEPATH \o Quote(SpaceToUnderscore(filename)) \o <<"?width=", ToString(width)>>

\* re.fullmatch(r"[KW][A-Z]{3}\d+", code)
IsCallSignDigits(code) ==
    /\ Len(code) >= 5
    /\ code[1] \in {"K", "W"}
    /\ \A i \in 2..4 : IsUpper(code[i])
    /\ \A i \in 5..Len(code) : IsDigit(code[i])

\* re.fullmatch(r"[KW][A-Z0-9]{3,5}", code)
IsCallSign(code) ==
    /\ Len(code) \in 4..6
    /\ code[1] \in {"K", "W"}
    /\ \A i \in 2..Len(code) : IsUpper(code[i]) \/ IsDigit(code[i])

guess_station_title(code) ==
    IF IsCallSignDigits(code)
    THEN SubSeq(code, 1, 4) \o <<"-", "D", "T">> \o SubSeq(code, 5, Len(code))
    ELSE IF IsCallSign(code) THEN code \o <<"-", "T", "V">>
    ELSE code

\* The functions below take the decoded response of their one request; the
\* request raising (request_json: connection error, timeout, raise_for_status,
\* bad JSON) is handled by the caller's step.

\* hits: the titles of data["query"]["search"]
wp_search_title(hits) == IF hits # <<>> THEN hits[1] ELSE None

\* pages: for each page its pageprops["wikibase_item"], None when it has none
RECURSIVE wp_get_wikibase_item(_)
wp_get_wikibase_item(pages) ==
    IF pages = <<>> THEN None
    ELSE IF Head(pages) # None THEN Head(pages)
    ELSE wp_get_wikibase_item(Tail(pages))

\* claims: for each P154 claim its datavalue: [kind |-> "str", value], a dict
\* with a title [kind |-> "dict", value], or anything else [kind |-> "other"]
RECURSIVE wd_get_logo_filename(_)
wd_get_logo_filename(claims) ==
    IF claims = <<>> THEN None
    ELSE IF Head(claims).kind = "str" THEN Head(claims).value
    ELSE IF Head(claims).kind = "dict" /\ Head(claims).value # None THEN Head(claims).value
    ELSE wd_get_logo_filename(Tail(claims))

IsUSPath(path) ==
    \/ Contains(path, <<"U","n","i","t","e","d","-","S","t","a","t","e","s">>)
    \/ Contains(path, <<"/","U","S","/">>)
    \/ Contains(path, <<"/","U","n","i","t","e","d"," ","S","t","a","t","e","s","/">>)

RawUrl(html_url) ==
    ReplaceToken(ReplaceToken(html_url, "github.com", "raw.githubusercontent.com"), "/blob/", "/")

\* resp: what the code search request yielded; its body is the result list
github_tvlogos_search(resp) ==
    LET items == resp.body IN
    IF resp.raised THEN None
    ELSE IF \E i \in 1..Len(items) : IsUSPath(items[i].path)
    THEN RawUrl(items[CHOOSE i \in 1..Len(items) :
                        /\ IsUSPath(items[i].path)
                        /\ \A j \in 1..(i - 1) : ~IsUSPath(items[j].path)].html_url)
    ELSE IF items # <<>> THEN RawUrl(items[1].html_url)
    ELSE None

\* resp: what requests.get yielded; its body is the status code and content
download(resp) ==
    IF resp.raised THEN None
    ELSE IF resp.body.status_code = 200 /\ resp.body.content # <<>> THEN resp.body.content
    ELSE None

\* The PNG normalize_png returns for decodable bytes
normalize_png(data, target_px) == <<"RGBA-PNG", ToString(target_px), "of">> \o data

placeholder_codes ==
    { <<"V","A","L","U">>, <<"R","E","N","E","W">>,
      <<"D","E","A","L">>, <<"I","N","F","O">>,
      <<"M","A","L","L">>, <<"S","H","O","P">>,
      <<"B","O","O","S","T">>, <<"E","X","T","R","A">>,
      <<"S","A","L","E">>, <<"S","C","A","P","1">>,
      <<"S","C","A","P","2">>, <<"S","C","A","P","3">>,
      <<"S","C","A","P","4">>, <<"B","I","N","G","E">>,
      <<"I","C","T","V">>, <<"Y","O","U","T","V">>,
      <<"M","S","G","4">>, <<"A","M","V","O">>,
      <<"W","E","S","T">>, <<"P","R","T","G","S">>,
      <<"A","U","D">>, <<"A","U","D","0","1">>,
      <<"A","U","D","0","2">>, <<"A","U","D","0","3">>,
      <<"A","U","D","0","4">>, <<"A","U","D","0","5">>,
      <<"A","U","D","0","6">>, <<"A","U","D","0","7">>,
      <<"A","U","D","0","8">>, <<"A","U","D","0","9">>,
      <<"A","U","D","1","0">>, <<"A","U","D","1","1">>,
      <<"A","U","D","1","2">>, <<"A","U","D","1","3">>,
      <<"E","S","2","4">>, <<"T","O","D","O","C">>,
      <<"T","O","N","O","M">>, <<"T","D","V">>,
      <<"E","N","L","C">>, <<"M","V","S","H","G">>,
      <<"B","I","T","V">>, <<"H","E","R","I","C">> }

PlaceholderText(code) == IF code \in placeholder_codes THEN code ELSE Prefix(code, 6)

\* The PNG the placeholder branch saves
PlaceholderPng(code, px) == <<"RGBA-PNG", ToString(px), "placeholder">> \o PlaceholderText(code)

OutDir == <<"<out_dir>", "/">>

\* os.path.join(out_dir, f"{num}_{code}.png")
OutFile(num, code) == OutDir \o num \o <<"_">> \o code \o <<".", "p", "n", "g">>

\* read_overrides: the rows of overrides.csv to the mapping code -> url
RECURSIVE read_overrides(_)
read_overrides(rows) ==
    IF rows = <<>> THEN <<>>
    ELSE LET rest == read_overrides(SubSeq(rows, 1, Len(rows) - 1))
             row == rows[Len(rows)]
             code == Strip(Or(row.code, <<>>))
             url == Strip(Or(row.direct_image_url, <<>>))
         IN IF Truthy(code) /\ Truthy(url)
            THEN [c \in DOMAIN rest \cup {code} |-> IF c = code THEN url ELSE rest[c]]
            ELSE rest


\* ------------------------------------------------------------------ inputs
ESPN == <<"E","S","P","N">>
KABC7 == <<"K","A","B","C","7">>
HBO == <<"H","B","O">>

\* Rows of channels.csv as csv.DictReader yields them (None: column absent)
Rows ==
    { [number |-> <<"7">>, code |-> ESPN, name |-> None, type |-> None,
       search_hint |-> None],
      [number |-> <<"5">>, code |-> <<" ">> \o KABC7, name |-> None,
       type |-> <<" ","L","o","c","a","l">>, search_hint |-> <<"A","B","C","7">>],
      [number |-> <<"8">>, code |-> ESPN, name |-> None,
       type |-> <<"n","e","t","w","o","r","k">>,
       search_hint |-> <<"E","S","P","N"," ","H","D">>],
      [number |-> <<"9">>, code |-> <<>>, name |-> HBO, type |-> <<>>,
       search_hint |-> HBO \o <<" ">>],
      [number |-> <<" ">>, code |-> ESPN, name |-> None, type |-> None,
       search_hint |-> None],
      [number |-> <<"7">>, code |-> None, name |-> None, type |-> None,
       search_hint |-> ESPN] }

Rosters == UNION { [1..n -> Rows] : n \in 1..MaxRows }

OverrideUrl == <<"http://", "example", "/", "espn.png">>

\* Rows of overrides.csv
OverrideFiles ==
    { <<>>,
      << [code |-> ESPN \o <<" ">>, direct_image_url |-> OverrideUrl],
         [code |-> HBO, direct_image_url |-> <<" ">>] >> }

\* ------------------------------------------------- environment's responses
Title == <<"E","S","P","N">>
Qid == <<"Q","2","1","7","7","7","6">>
LogoFile == <<"E","S","P","N"," ","l","o","g","o",".","s","v","g">>

\* What one request yields: it raised, or the decoded body it returned
Returned(body) == [raised |-> FALSE, body |-> body]
RaisedWith(body) == [raised |-> TRUE, body |-> body]
Responses(bodies) == {RaisedWith(<<>>)} \cup {Returned(b) : b \in bodies}

SearchResponses == Responses({ <<>>, <<Title>> })
PagepropsResponses == Responses({ <<>>, <<None>>, <<None, Qid>> })
ClaimsResponses ==
    Responses({ <<>>,
                << [kind |-> "other", value |-> None] >>,
                << [kind |-> "dict", value |-> None], [kind |-> "str", value |-> LogoFile] >>,
                << [kind |-> "dict", value |-> LogoFile] >> })

HtmlUrl(file) == <<"https://", "github.com", "/tv-logo/tv-logos", "/blob/", "main/", file>>

SearchItems ==
    { [path |-> <<"w","/","e">>, html_url |-> HtmlUrl("world/espn.png")],
      [path |-> <<"c","/","U","S","/","e">>, html_url |-> HtmlUrl("countries/US/espn.png")],
      [path |-> <<"x">>, html_url |-> <<>>] }

CodeSearchResponses == Responses(UNION { [1..n -> SearchItems] : n \in 0..MaxItems })

\* Bodies a download can carry: an image, or bytes that are no image
ImageOf(url) == <<"image-at">> \o url
Junk == <<"junk">>
DownloadResponses(url) ==
    { RaisedWith([status_code |-> 0, content |-> <<>>]),
      Returned([status_code |-> 404, content |-> Junk]),
      Returned([status_code |-> 200, content |-> <<>>]),
      Returned([status_code |-> 200, content |-> Junk]),
      Returned([status_code |-> 200, content |-> ImageOf(url)]) }

Decodable(data) == data # Junk

Partial == <<"partial">>

\* ------------------------------------------------------------------- state
VARIABLES
    roster,      \* rows read from channels_csv (line 203)
    ovrows,      \* rows of overrides_csv
    files,       \* the output directory: path -> file content
    run,         \* which consecutive run of fetch_channel_logos this is
    files0,      \* the output directory when this run started
    pc,          \* position of the run
    idx,         \* index in rows of the row being processed (0: none yet)
    success,     \* line 205
    fail,        \* line 206
    written,     \* line 207
    url,         \* line 223
    title,       \* line 232
    qid,         \* line 238
    data,        \* line 256
    term,        \* index in (hint, code) of the next code-search term (line 248)
    calls,       \* outbound requests issued for the current row, in order
    napDue,      \* a request was issued and no nap() has followed it yet
    outcome,     \* per row of this run: how its iteration ended
    netRows,     \* rows of this run for which an outbound request was issued
    hitRows,     \* rows of this run for which some request returned a result
    prev,        \* how the previous run ended ("none" in the first run)
    ghRaised,    \* the latest code search of this row raised inside its try (line 141)
    logged,      \* the latest step called log()
    \* one call of normalize_png (lines 147-159)
    im_size,     \* (w, h) of the opened image (line 148)
    target,      \* target_px
    new_size,    \* (new_w, new_h) (line 150)
    canvas,      \* size of the canvas (line 152)
    offset,      \* (ox, oy) (lines 153-154)
    npc,         \* position inside normalize_png
    \* one call of github_tvlogos_search (lines 118-144)
    ghResp,      \* what request_json yields for the query (line 122)
    gi,          \* index of `it` in items (line 124)
    raw_url,     \* the value returned
    gpc,         \* position inside github_tvlogos_search
    \* two runs of fetch_channel_logos at one row, on one output directory
    wpc,         \* per run: its position in the iteration
    wdata,       \* per run: the bytes it is about to write (lines 259, 327)
    disk,        \* content of the row's canonical file (None: no such file)
    fetched      \* the runs that went through the resolvers (lines 223-257)

mvars == <<roster, ovrows, files, run, files0, pc, idx, success, fail, written,
           url, title, qid, data, term, calls, napDue, outcome, netRows, hitRows, prev,
           ghRaised, logged>>
nvars == <<im_size, target, new_size, canvas, offset, npc>>
gvars == <<ghResp, gi, raw_url, gpc>>
rvars == <<wpc, wdata, disk, fetched>>
aux == <<nvars, gvars, rvars>>
vars == <<mvars, aux>>

\* normalize_png is not being called
NormIdle ==
    /\ im_size = <<1, 1>> /\ target = 1
    /\ new_size = <<0, 0>> /\ canvas = <<0, 0>> /\ offset = <<0, 0>>
    /\ npc = "idle"

\* github_tvlogos_search is not being called
ScanIdle ==
    /\ ghResp = Returned(<<>>) /\ gi = 0 /\ raw_url = None /\ gpc = "idle"

\* there is one run only
RaceIdle ==
    /\ wpc = <<>> /\ wdata = <<>> /\ disk = None /\ fetched = {}

AuxIdle == NormIdle /\ ScanIdle /\ RaceIdle

inputs == <<roster, ovrows, prev>>
locals == <<url, title, qid, data, term, ghRaised>>

overrides == read_overrides(ovrows)
px == TARGET_PX

\* The fields of the current row as lines 210-216 compute them
Row == roster[idx]
RowNum(row) == Strip(Or(row.number, <<>>))
RowCode(row) == Strip(Or(Or(row.code, row.name), <<>>))
RowType(row) == Lower(Strip(Or(row.type, <<"n","e","t","w","o","r","k">>)))
RowHint(row) == Or(Strip(Or(row.search_hint, <<>>)), RowCode(row))
\* A test that lets a row without a number through
RowValidCodeOnly(row) == Truthy(RowCode(row))

RowValid(row) == Truthy(RowNum(row)) /\ Truthy(RowCode(row))
RowFile(row) == OutFile(RowNum(row), RowCode(row))

num == RowNum(Row)
code == RowCode(Row)
ch_type == RowType(Row)
hint == RowHint(Row)
outfile == RowFile(Row)

\* A cache check that never finds the file
ExistsNever(path) == FALSE

Exists(path) == path \in DOMAIN files

\* A write that leaves nothing else in the directory
WriteFileAlone(path, content) == [p \in {path} |-> content]

WriteFile(path, content) ==
    [p \in DOMAIN files \cup {path} |-> IF p = path THEN content ELSE files[p]]

\* A mapping update that is lost
PutNothing(map, k, v) == map

Put(map, k, v) == [c \in DOMAIN map \cup {k} |-> IF c = k THEN v ELSE map[c]]

Call(fn, arg, res) == [fn |-> fn, arg |-> arg, res |-> res]

\* fetch_channel_logos is not running: nothing was read, nothing is on disk
MainIdle ==
    /\ roster = <<>> /\ ovrows = <<>> /\ files = <<>> /\ files0 = <<>>
    /\ run = 1 /\ pc = "idle" /\ idx = 0 /\ success = 0 /\ fail = 0
    /\ written = <<>>
    /\ url = None /\ title = None /\ qid = None /\ data = None /\ term = 1
    /\ calls = <<>> /\ napDue = FALSE /\ outcome = <<>>
    /\ netRows = {} /\ hitRows = {} /\ prev = "none"
    /\ ghRaised = FALSE /\ logged = FALSE

Init ==
    /\ roster \in Rosters
    /\ ovrows \in OverrideFiles
    /\ files = <<>>
    /\ files0 = <<>>
    /\ run = 1
    /\ pc = "next"
    /\ idx = 0
    /\ success = 0
    /\ fail = 0
    /\ written = <<>>
    /\ url = None /\ title = None /\ qid = None /\ data = None /\ term = 1
    /\ calls = <<>>
    /\ napDue = FALSE
    /\ outcome = [i \in 1..Len(roster) |-> "pending"]
    /\ netRows = {}
    /\ hitRows = {}
    /\ prev = "none"
    /\ ghRaised = FALSE
    /\ logged = TRUE
    /\ AuxIdle


\* ------------------------------------------------------------------ actions
\* What every way of leaving an iteration shares: the loop variable moves on
\* and the iteration's locals are dead (each is assigned again before it is read).
EndEntry(how) ==
    /\ pc' = "next"
    /\ outcome' = [outcome EXCEPT ![idx] = how]
    /\ url' = None /\ title' = None /\ qid' = None /\ data' = None /\ term' = 1
    /\ ghRaised' = FALSE
    /\ calls' = <<>>

\* A request was issued and raised out of fetch_channel_logos (no try around it)
Abort(fn, arg) ==
    /\ pc' = "aborted"
    /\ calls' = Append(calls, Call(fn, arg, Raised))
    /\ napDue' = TRUE
    /\ netRows' = netRows \cup {idx}
    /\ outcome' = [outcome EXCEPT ![idx] = "aborted"]
    /\ logged' = FALSE
    /\ UNCHANGED hitRows

\* A request was issued, returned res, and nap() followed
Requested(fn, arg, res) ==
    /\ calls' = Append(calls, Call(fn, arg, res))
    /\ napDue' = FALSE
    /\ netRows' = netRows \cup {idx}
    /\ hitRows' = IF Truthy(res) THEN hitRows \cup {idx} ELSE hitRows

\* Lines 223-226: the URL the overrides give for a code, None without one
\* An override lookup that is only logged, never used
OverrideIgnored(c) == None

OverrideFor(c) == IF c \in DOMAIN overrides THEN overrides[c] ELSE None

\* A cache hit that is counted as a success
BeginEntryCountsCached ==
    /\ pc = "next"
    /\ idx < Len(roster)
    /\ idx' = idx + 1
    /\ LET row == roster[idx + 1] IN
       IF ~RowValid(row)
       THEN /\ outcome' = [outcome EXCEPT ![idx + 1] = "skipped"]
            /\ logged' = FALSE
            /\ UNCHANGED <<inputs, aux, files, run, files0, pc, success, fail, written,
                           locals, calls, napDue, netRows, hitRows>>
       ELSE IF Exists(RowFile(row))
       THEN /\ written' = Put(written, RowCode(row), RowFile(row))
            /\ success' = success + 1
            /\ outcome' = [outcome EXCEPT ![idx + 1] = "cached"]
            /\ logged' = TRUE
            /\ UNCHANGED <<inputs, aux, files, run, files0, pc, fail,
                           locals, calls, napDue, netRows, hitRows>>
       ELSE /\ url' = OverrideFor(RowCode(row))
            /\ pc' = IF Truthy(url') THEN "download" ELSE "search"
            /\ outcome' = [outcome EXCEPT ![idx + 1] = "running"]
            /\ logged' = Truthy(url')
            /\ UNCHANGED <<inputs, aux, files, run, files0, success, fail, written,
                           title, qid, data, term, ghRaised, calls, napDue, netRows, hitRows>>

\* Lines 209-226: take the next row; skip it, short-circuit on the cache, or
\* look the code up in the overrides.
BeginEntry ==
    /\ pc = "next"
    /\ idx < Len(roster)
    /\ idx' = idx + 1
    /\ LET row == roster[idx + 1] IN
       IF ~RowValid(row)
       THEN /\ outcome' = [outcome EXCEPT ![idx + 1] = "skipped"]
            /\ logged' = FALSE
            /\ UNCHANGED <<inputs, aux, files, run, files0, pc, success, fail, written,
                           locals, calls, napDue, netRows, hitRows>>
       ELSE IF Exists(RowFile(row))
       THEN /\ written' = Put(written, RowCode(row), RowFile(row))
            /\ outcome' = [outcome EXCEPT ![idx + 1] = "cached"]
            /\ logged' = TRUE
            /\ UNCHANGED <<inputs, aux, files, run, files0, pc, success, fail,
                           locals, calls, napDue, netRows, hitRows>>
       ELSE /\ url' = OverrideFor(RowCode(row))
            /\ pc' = IF Truthy(url') THEN "download" ELSE "search"
            /\ outcome' = [outcome EXCEPT ![idx + 1] = "running"]
            /\ logged' = Truthy(url')
            /\ UNCHANGED <<inputs, aux, files, run, files0, success, fail, written,
                           title, qid, data, term, ghRaised, calls, napDue, netRows, hitRows>>

\* A retry that does not look at whether code differs from hint
AfterSearchAlwaysRetries(t, mayRetry) ==
    IF ~Truthy(t) /\ pc = "search" THEN "retry"
    ELSE IF Truthy(t) THEN "item"
    ELSE "github"

\* Where the knowledge-graph chain goes after a title search (lines 234, 237)
AfterSearch(t, mayRetry) ==
    IF ~Truthy(t) /\ mayRetry THEN "retry"
    ELSE IF Truthy(t) THEN "item"
    ELSE "github"

\* Lines 229-233
SearchTitle ==
    /\ pc = "search"
    /\ LET q == IF ch_type = <<"l","o","c","a","l">> THEN guess_station_title(code) ELSE hint IN
       IF ~Truthy(q)
       THEN /\ title' = None
            /\ pc' = AfterSearch(None, code # hint)
            /\ napDue' = FALSE
            /\ logged' = FALSE
            /\ UNCHANGED <<calls, netRows, hitRows, outcome>>
       ELSE \E resp \in SearchResponses :
              IF resp.raised
              THEN Abort("wp_search_title", q) /\ UNCHANGED title
              ELSE /\ title' = wp_search_title(resp.body)
                   /\ Requested("wp_search_title", q, title')
                   /\ pc' = AfterSearch(title', code # hint)
                   /\ logged' = FALSE
                   /\ UNCHANGED outcome
    /\ UNCHANGED <<inputs, aux, files, run, files0, idx, success, fail, written,
                   url, qid, data, term, ghRaised>>

\* Lines 234-236
RetrySearchTitle ==
    /\ pc = "retry"
    /\ \E resp \in SearchResponses :
         IF resp.raised
         THEN Abort("wp_search_title", code) /\ UNCHANGED title
         ELSE /\ title' = wp_search_title(resp.body)
              /\ Requested("wp_search_title", code, title')
              /\ pc' = AfterSearch(title', FALSE)
              /\ logged' = FALSE
              /\ UNCHANGED outcome
    /\ UNCHANGED <<inputs, aux, files, run, files0, idx, success, fail, written,
                   url, qid, data, term, ghRaised>>

\* Lines 237-239
GetWikibaseItem ==
    /\ pc = "item"
    /\ \E resp \in PagepropsResponses :
         IF resp.raised
         THEN Abort("wp_get_wikibase_item", title) /\ UNCHANGED qid
         ELSE /\ qid' = wp_get_wikibase_item(resp.body)
              /\ Requested("wp_get_wikibase_item", title, qid')
              /\ pc' = IF Truthy(qid') THEN "claims" ELSE "github"
              /\ logged' = FALSE
              /\ UNCHANGED outcome
    /\ UNCHANGED <<inputs, aux, files, run, files0, idx, success, fail, written,
                   url, title, data, term, ghRaised>>

\* Lines 243-247: with a file name the chain has its URL and the code search
\* is passed over (`if not url`)
\* The code search not guarded by `if not url`
AfterClaimsAlwaysGithub(fname) == "github"

AfterClaims(fname) == IF Truthy(fname) THEN "download" ELSE "github"

\* Lines 240-245
GetLogoFilename ==
    /\ pc = "claims"
    /\ \E resp \in ClaimsResponses :
         IF resp.raised
         THEN Abort("wd_get_logo_filename", qid) /\ UNCHANGED url
         ELSE LET fname == wd_get_logo_filename(resp.body) IN
              /\ Requested("wd_get_logo_filename", qid, fname)
              /\ url' = IF Truthy(fname) THEN commons_file_url(fname, px) ELSE url
              /\ pc' = AfterClaims(fname)
              /\ logged' = Truthy(fname)
              /\ UNCHANGED outcome
    /\ UNCHANGED <<inputs, aux, files, run, files0, idx, success, fail, written,
                   title, qid, data, term, ghRaised>>

\* Candidate terms with the code twice
TermsThree == <<hint, code, code>>

\* The candidate terms of line 248
Terms == <<hint, code>>

\* A loop without the break of line 254
GithubSearchNoBreak ==
    /\ pc = "github"
    /\ \E resp \in CodeSearchResponses :
         LET gh == github_tvlogos_search(resp) IN
         /\ Requested("github_tvlogos_search", Terms[term], gh)
         /\ ghRaised' = resp.raised
         /\ logged' = Truthy(gh)
         /\ url' = IF Truthy(gh) THEN gh ELSE url
         /\ IF term < Len(Terms)
            THEN term' = term + 1 /\ UNCHANGED pc
            ELSE pc' = "download" /\ UNCHANGED term
    /\ UNCHANGED <<inputs, aux, files, run, files0, idx, success, fail, written,
                   title, qid, data, outcome>>

\* Lines 247-254: one pass of the loop over (hint, code)
GithubSearch ==
    /\ pc = "github"
    /\ \E resp \in CodeSearchResponses :
         LET gh == github_tvlogos_search(resp) IN
         /\ Requested("github_tvlogos_search", Terms[term], gh)
         /\ ghRaised' = resp.raised
         /\ logged' = Truthy(gh)
         /\ IF Truthy(gh)
            THEN url' = gh /\ pc' = "download" /\ UNCHANGED term
            ELSE IF term < Len(Terms)
            THEN term' = term + 1 /\ UNCHANGED <<url, pc>>
            ELSE pc' = "download" /\ UNCHANGED <<url, term>>
    /\ UNCHANGED <<inputs, aux, files, run, files0, idx, success, fail, written,
                   title, qid, data, outcome>>

\* Line 257 and what follows it: bytes go to the normalizer, no bytes to
\* the placeholder
\* A failed download that goes back to the resolvers
AfterDownloadRetry(d) == IF Truthy(d) THEN "normalize" ELSE "search"

AfterDownload(d) == IF Truthy(d) THEN "normalize" ELSE "placeholder"

\* Lines 256-257
Download ==
    /\ pc = "download"
    /\ IF Truthy(url)
       THEN \E resp \in DownloadResponses(url) :
              /\ data' = download(resp)
              /\ calls' = Append(calls, Call("download", url, data'))
              /\ napDue' = TRUE
              /\ netRows' = netRows \cup {idx}
              /\ hitRows' = IF Truthy(data') THEN hitRows \cup {idx} ELSE hitRows
       ELSE data' = None /\ UNCHANGED <<calls, napDue, netRows, hitRows>>
    /\ pc' = AfterDownload(data')
    /\ logged' = FALSE
    /\ UNCHANGED <<inputs, aux, files, run, files0, idx, success, fail, written,
                   url, title, qid, term, ghRaised, outcome>>

\* A normalizer whose except branch counts the row as failed
NormalizeAndWriteCountsFail ==
    /\ pc = "normalize"
    /\ \/ /\ Decodable(data)
          /\ files' = WriteFile(outfile, normalize_png(data, px))
          /\ success' = success + 1
          /\ written' = Put(written, code, outfile)
          /\ UNCHANGED fail
          /\ EndEntry("logo")
       \/ /\ pc' = "placeholder"
          /\ fail' = fail + 1
          /\ UNCHANGED <<files, success, written, locals, calls, outcome>>
    /\ logged' = TRUE
    /\ UNCHANGED <<inputs, aux, run, files0, idx, napDue, netRows, hitRows>>

\* A normalizer whose except branch goes back to the code search
NormalizeAndWriteRetries ==
    /\ pc = "normalize"
    /\ \/ /\ Decodable(data)
          /\ files' = WriteFile(outfile, normalize_png(data, px))
          /\ success' = success + 1
          /\ written' = Put(written, code, outfile)
          /\ EndEntry("logo")
       \/ /\ pc' = "github"
          /\ UNCHANGED <<files, success, written, locals, calls, outcome>>
    /\ logged' = TRUE
    /\ UNCHANGED <<inputs, aux, run, files0, idx, fail, napDue, netRows, hitRows>>

\* Lines 258-267: normalize the bytes and write the file; any exception is
\* logged and the iteration goes on to the placeholder.
NormalizeAndWrite ==
    /\ pc = "normalize"
    /\ \/ /\ Decodable(data)
          /\ files' = WriteFile(outfile, normalize_png(data, px))
          /\ success' = success + 1
          /\ written' = Put(written, code, outfile)
          /\ EndEntry("logo")
       \/ /\ ~Decodable(data)                  \* Image.open raises
          /\ pc' = "placeholder"
          /\ UNCHANGED <<files, success, written, locals, calls, outcome>>
       \/ /\ Decodable(data)                   \* open(outfile, "wb") raises
          /\ pc' = "placeholder"
          /\ UNCHANGED <<files, success, written, locals, calls, outcome>>
       \/ /\ Decodable(data)                   \* fo.write(png) raises part-way
          /\ files' = WriteFile(outfile, Partial)
          /\ pc' = "placeholder"
          /\ UNCHANGED <<success, written, locals, calls, outcome>>
    /\ logged' = TRUE
    /\ UNCHANGED <<inputs, aux, run, files0, idx, fail, napDue, netRows, hitRows>>

\* Lines 313-333: draw and save the placeholder; any exception counts the
\* row as failed.
Placeholder ==
    /\ pc = "placeholder"
    /\ \/ /\ files' = WriteFile(outfile, PlaceholderPng(code, px))
          /\ success' = success + 1
          /\ written' = Put(written, code, outfile)
          /\ UNCHANGED fail
          /\ EndEntry("placeholder")
       \/ /\ fail' = fail + 1                  \* drawing raises, or im.save cannot open
          /\ UNCHANGED <<files, success, written>>
          /\ EndEntry("failed")
       \/ /\ fail' = fail + 1                  \* im.save raises part-way
          /\ files' = WriteFile(outfile, Partial)
          /\ UNCHANGED <<success, written>>
          /\ EndEntry("failed")
    /\ logged' = TRUE
    /\ UNCHANGED <<inputs, aux, run, files0, idx, napDue, netRows, hitRows>>

\* Lines 335-337: the loop is over; log the tally and return written
Finish ==
    /\ pc = "next"
    /\ idx = Len(roster)
    /\ pc' = "done"
    /\ logged' = TRUE
    /\ UNCHANGED <<inputs, aux, files, run, files0, idx, success, fail, written,
                   locals, calls, napDue, outcome, netRows, hitRows>>

\* fetch_channel_logos is called again with the same arguments (lines 194-207)
RunAgain ==
    /\ pc \in {"done", "aborted"}
    /\ run < MaxRuns
    /\ run' = run + 1
    /\ files0' = files
    /\ pc' = "next"
    /\ idx' = 0
    /\ success' = 0
    /\ fail' = 0
    /\ written' = <<>>
    /\ url' = None /\ title' = None /\ qid' = None /\ data' = None /\ term' = 1
    /\ ghRaised' = FALSE
    /\ calls' = <<>>
    /\ napDue' = FALSE
    /\ outcome' = [i \in 1..Len(roster) |-> "pending"]
    /\ netRows' = {}
    /\ hitRows' = {}
    /\ prev' = pc
    /\ logged' = TRUE
    /\ UNCHANGED <<roster, ovrows, files, aux>>

Next ==
    \/ BeginEntry
    \/ SearchTitle
    \/ RetrySearchTitle
    \/ GetWikibaseItem
    \/ GetLogoFilename
    \/ GithubSearch
    \/ Download
    \/ NormalizeAndWrite
    \/ Placeholder
    \/ Finish
    \/ RunAgain

Spec == Init /\ [][Next]_vars

\* ------------------------------------------------------------ normalize_png
\* One call of normalize_png on an image that opens (lines 147-159), by the
\* sizes it computes.

MaxSide == 12
MaxTarget == 6

Sides == 1..MaxSide \cup {100, 300}
Targets == 1..MaxTarget \cup {TARGET_PX}

Max(a, b) == IF a >= b THEN a ELSE b
Min(a, b) == IF a <= b THEN a ELSE b

\* A scale taken from the shortest side
ShortestSide(w, h) == Min(w, h)

\* Line 149: the side the scale is taken from
LongestSide(w, h) == Max(w, h)

\* int(round(s * (target_px / m))): s * target_px / m rounded to the nearest
\* integer. An exact half is rounded to the even neighbour when the float
\* product is exactly the half, and to whichever side the two float roundings
\* left it on when it is not: both neighbours are outcomes.
Rounded(s, t, m) ==
    LET q == (s * t) \div m
        r == (s * t) % m
    IN  IF 2 * r < m THEN {q}
        ELSE IF 2 * r > m THEN {q + 1}
        ELSE {q, q + 1}

NormInit ==
    /\ MainIdle /\ ScanIdle /\ RaceIdle
    /\ im_size \in Sides \X Sides
    /\ target \in Targets
    /\ new_size = <<0, 0>> /\ canvas = <<0, 0>> /\ offset = <<0, 0>>
    /\ npc = "opened"

\* Lines 149-151
NormResize ==
    /\ npc = "opened"
    /\ LET w == im_size[1]
           h == im_size[2]
           m == LongestSide(w, h)
       IN  \E rw \in Rounded(w, target, m), rh \in Rounded(h, target, m) :
             new_size' = <<Max(1, rw), Max(1, rh)>>
    /\ npc' = "resized"
    /\ UNCHANGED <<mvars, gvars, rvars, im_size, target, canvas, offset>>

\* Lines 152-155
NormPaste ==
    /\ npc = "resized"
    /\ canvas' = <<target, target>>
    /\ offset' = <<(target - new_size[1]) \div 2, (target - new_size[2]) \div 2>>
    /\ npc' = "pasted"
    /\ UNCHANGED <<mvars, gvars, rvars, im_size, target, new_size>>

\* Lines 156-159
NormSave ==
    /\ npc = "pasted"
    /\ npc' = "returned"
    /\ UNCHANGED <<mvars, gvars, rvars, im_size, target, new_size, canvas, offset>>

NormNext ==
    \/ NormResize
    \/ NormPaste
    \/ NormSave

NormSpec == NormInit /\ [][NormNext]_vars

\* ---------------------------------------------------- github_tvlogos_search
\* One call of github_tvlogos_search (lines 118-144), item by item.

MaxRanked == 3

\* Result items: those of SearchItems and two with the other US path forms
RankedItems ==
    SearchItems \cup
    { [path |-> <<"c","/","U","n","i","t","e","d","-","S","t","a","t","e","s","/","e">>,
       html_url |-> HtmlUrl("countries/United-States/espn.png")],
      [path |-> <<"c","/","U","n","i","t","e","d"," ","S","t","a","t","e","s","/","e">>,
       html_url |-> HtmlUrl("countries/United States/espn.png")] }

RankedResponses == Responses(UNION { [1..n -> RankedItems] : n \in 0..MaxRanked })

ScanInit ==
    /\ MainIdle /\ NormIdle /\ RaceIdle
    /\ ghResp \in RankedResponses
    /\ gi = 0
    /\ raw_url = None
    /\ gpc = "request"

\* Lines 121-123 and 141-142: the request; an exception returns None
ScanRequest ==
    /\ gpc = "request"
    /\ IF ghResp.raised
       THEN gpc' = "returned" /\ raw_url' = None /\ UNCHANGED gi
       ELSE gpc' = "loop" /\ gi' = 1 /\ UNCHANGED raw_url
    /\ UNCHANGED <<mvars, nvars, rvars, ghResp>>

\* A loop that returns its first item whatever its path
ScanItemTakesAny ==
    /\ gpc = "loop"
    /\ gi <= Len(ghResp.body)
    /\ raw_url' = RawUrl(ghResp.body[gi].html_url)
    /\ gpc' = "returned"
    /\ UNCHANGED <<mvars, nvars, rvars, ghResp, gi>>

\* Lines 124-133: one pass of `for it in items`
ScanItem ==
    /\ gpc = "loop"
    /\ gi <= Len(ghResp.body)
    /\ LET it == ghResp.body[gi] IN
       IF IsUSPath(it.path)
       THEN raw_url' = RawUrl(it.html_url) /\ gpc' = "returned" /\ UNCHANGED gi
       ELSE gi' = gi + 1 /\ UNCHANGED <<raw_url, gpc>>
    /\ UNCHANGED <<mvars, nvars, rvars, ghResp>>

\* Lines 134-144: the loop ended without a return
ScanFallback ==
    /\ gpc = "loop"
    /\ gi > Len(ghResp.body)
    /\ raw_url' = IF ghResp.body # <<>> THEN RawUrl(ghResp.body[1].html_url) ELSE None
    /\ gpc' = "returned"
    /\ UNCHANGED <<mvars, nvars, rvars, ghResp, gi>>

ScanNext ==
    \/ ScanRequest
    \/ ScanItem
    \/ ScanFallback

ScanSpec == ScanInit /\ [][ScanNext]_vars

\* The function as the run's GithubSearch step applies it returns what the
\* loop returns
ScanAgrees == gpc = "returned" => raw_url = github_tvlogos_search(ghResp)

\* ---------------------------------------------------------- concurrent runs
\* Several runs of fetch_channel_logos started on the same channels.csv and the
\* same output directory, followed at one row: they share nothing but the
\* row's canonical file.

MaxRacers == 2

Racers == 1..MaxRacers

\* What a run's resolvers and download can end with for the row (line 256)
RaceData ==
    { None, ImageOf(OverrideUrl), ImageOf(RawUrl(HtmlUrl("countries/US/espn.png"))) }

\* The bytes a run writes for the row: the normalized logo or the placeholder
RaceBytes(d) == IF Truthy(d) THEN normalize_png(d, px) ELSE PlaceholderPng(ESPN, px)

\* A write of content at offset 0 of a file that holds old: bytes of old
\* beyond the end of content stay
Overlay(content, old) ==
    content \o (IF Len(old) > Len(content)
                THEN SubSeq(old, Len(content) + 1, Len(old))
                ELSE <<>>)

RaceInit ==
    /\ MainIdle /\ NormIdle /\ ScanIdle
    /\ wpc = [w \in Racers |-> "check"]
    /\ wdata = [w \in Racers |-> None]
    /\ disk \in {None, RaceBytes(None)}
    /\ fetched = {}

\* Lines 218-221
RaceCheck(w) ==
    /\ wpc[w] = "check"
    /\ wpc' = [wpc EXCEPT ![w] = IF disk # None THEN "done" ELSE "resolve"]
    /\ UNCHANGED <<mvars, nvars, gvars, wdata, disk, fetched>>

\* Lines 223-259 and 313-326: resolvers, download, and the bytes to write
RaceResolve(w) ==
    /\ wpc[w] = "resolve"
    /\ \E d \in RaceData : wdata' = [wdata EXCEPT ![w] = RaceBytes(d)]
    /\ fetched' = fetched \cup {w}
    /\ wpc' = [wpc EXCEPT ![w] = "open"]
    /\ UNCHANGED <<mvars, nvars, gvars, disk>>

\* Line 260 (and inside im.save, line 327): open for writing truncates
RaceOpen(w) ==
    /\ wpc[w] = "open"
    /\ disk' = <<>>
    /\ wpc' = [wpc EXCEPT ![w] = "write"]
    /\ UNCHANGED <<mvars, nvars, gvars, wdata, fetched>>

\* Line 261 (and inside im.save, line 327)
RaceWrite(w) ==
    /\ wpc[w] = "write"
    /\ disk' = Overlay(wdata[w], disk)
    /\ wpc' = [wpc EXCEPT ![w] = "done"]
    /\ UNCHANGED <<mvars, nvars, gvars, wdata, fetched>>

RaceNext ==
    \/ \E w \in Racers : RaceCheck(w)
    \/ \E w \in Racers : RaceResolve(w)
    \/ \E w \in Racers : RaceOpen(w)
    \/ \E w \in Racers : RaceWrite(w)

RaceSpec == RaceInit /\ [][RaceNext]_vars

TypeOK ==
    /\ pc \in {"next", "search", "retry", "item", "claims", "github", "download",
               "normalize", "placeholder", "done", "aborted"}
    /\ idx \in 0..Len(roster)
    /\ run \in 1..MaxRuns
    /\ success \in 0..Len(roster) /\ fail \in 0..Len(roster)
    /\ term \in 1..2
    /\ napDue \in BOOLEAN /\ ghRaised \in BOOLEAN /\ logged \in BOOLEAN
    /\ netRows \subseteq 1..Len(roster)
    /\ hitRows \subseteq netRows
    /\ prev \in {"none", "done", "aborted"}


\* ------------------------------------------------------------------ claims
Last(s) == s[Len(s)]
NoResult(res) == res = Raised \/ ~Truthy(res)
KGFunctions == {"wp_search_title", "wp_get_wikibase_item", "wd_get_logo_filename"}
CallsOf(fns) == {k \in 1..Len(calls) : calls[k].fn \in fns}
Ended(i) == outcome[i] \in {"logo", "placeholder", "failed", "aborted"}
HasOverride(row) == RowCode(row) \in DOMAIN overrides

\* C1: when the row the loop reaches is valid and its canonical file exists,
\* that iteration issues no request, writes nothing, leaves both counters
\* alone, maps the code to the canonical path and moves on to the next row.
C1_CacheShortCircuit ==
    [][ ( /\ pc = "next"
          /\ idx < Len(roster)
          /\ RowValid(roster[idx + 1])
          /\ RowFile(roster[idx + 1]) \in DOMAIN files )
        => ( /\ calls' = calls /\ netRows' = netRows /\ napDue' = napDue
             /\ files' = files
             /\ success' = success /\ fail' = fail
             /\ RowCode(roster[idx + 1]) \in DOMAIN written'
             /\ written'[RowCode(roster[idx + 1])] = RowFile(roster[idx + 1])
             /\ pc' = "next" /\ idx' = idx + 1 ) ]_vars

C1_Witness ==
    /\ idx >= 1
    /\ outcome[idx] = "cached"
    /\ pc = "next"
    /\ idx \notin netRows
    /\ written[code] = outfile


\* C2 as stated: in a run that follows a run which returned normally, no
\* request is issued for any row and the directory stays exactly as the
\* previous run left it, whatever the previous run's outcomes were.
C2_SecondRunSilent ==
    (run >= 2 /\ prev = "done") => (netRows = {} /\ files = files0)

\* C2 as amended: a run that follows another issues requests only for rows
\* whose canonical file was absent when it started, and every file the
\* previous run left is still there with the same content.
C2_SecondRunOnlyRetriesMissing ==
    run >= 2 =>
        /\ \A i \in netRows : RowFile(roster[i]) \notin DOMAIN files0
        /\ \A p \in DOMAIN files0 : p \in DOMAIN files /\ files[p] = files0[p]

C2_Witness ==
    /\ run = 2 /\ prev = "done" /\ pc = "done"
    /\ \E i \in 1..Len(roster) : outcome[i] = "cached"
    /\ \E i \in netRows : outcome[i] \in {"logo", "placeholder"}
    /\ DOMAIN files0 # {}

\* C3: while a row whose code has an override is being processed, the only
\* requests issued for it are downloads of the override URL; once the
\* download step is passed exactly one such download has been issued.
C3_OverrideOnly ==
    (idx >= 1 /\ outcome[idx] = "running" /\ HasOverride(Row)) =>
        /\ \A k \in 1..Len(calls) :
              calls[k].fn = "download" /\ calls[k].arg = overrides[code]
        /\ pc \in {"download", "normalize", "placeholder"}
        /\ pc \in {"normalize", "placeholder"} => Len(calls) = 1

C3_Witness ==
    /\ idx >= 1 /\ HasOverride(Row)
    /\ pc = "normalize"
    /\ calls = << Call("download", OverrideUrl, ImageOf(OverrideUrl)) >>

\* C4: for a row without an override, every knowledge-graph request precedes
\* every code search; when a code search has been issued the chain was run
\* once (its first title search is the first request, at most one retry, one
\* entity lookup and one claim lookup) and gave no file name; and a download
\* that follows a code search fetches the URL the last code search returned.
C4_FallbackOrder ==
    (idx >= 1 /\ outcome[idx] = "running" /\ ~HasOverride(Row)) =>
        LET gh == CallsOf({"github_tvlogos_search"})
            kg == CallsOf(KGFunctions)
            dl == CallsOf({"download"})
        IN  /\ \A k \in kg : \A g \in gh : k < g
            /\ gh # {} =>
                 /\ calls[1].fn = "wp_search_title"
                 /\ CallsOf({"wp_search_title"}) \subseteq {1, 2}
                 /\ Cardinality(CallsOf({"wp_get_wikibase_item"})) <= 1
                 /\ Cardinality(CallsOf({"wd_get_logo_filename"})) <= 1
                 /\ \A k \in kg : calls[k].fn = "wd_get_logo_filename" => ~Truthy(calls[k].res)
            /\ (gh # {} /\ dl # {}) =>
                 /\ dl = {Len(calls)}
                 /\ Truthy(calls[Len(calls) - 1].res)
                 /\ calls[Len(calls) - 1].fn = "github_tvlogos_search"
                 /\ Last(calls).arg = calls[Len(calls) - 1].res
            /\ (gh # {} /\ pc \in {"normalize", "placeholder"} /\ Truthy(url)) => dl # {}

C4_Witness ==
    /\ idx >= 1 /\ ~HasOverride(Row)
    /\ pc = "normalize"
    /\ Len(calls) >= 3
    /\ calls[1].fn = "wp_search_title" /\ ~Truthy(calls[1].res)
    /\ calls[Len(calls) - 1].fn = "github_tvlogos_search"
    /\ Last(calls).fn = "download"
    /\ Last(calls).arg = calls[Len(calls) - 1].res

\* C5: once the iteration of a row without an override has ended and none of
\* its requests returned anything (each returned no result or raised), a
\* complete file is at its canonical path and its code is in written.
C5_PlaceholderTotality ==
    \A i \in 1..Len(roster) :
        (Ended(i) /\ ~HasOverride(roster[i]) /\ i \notin hitRows) =>
            /\ RowFile(roster[i]) \in DOMAIN files
            /\ files[RowFile(roster[i])] # Partial
            /\ RowCode(roster[i]) \in DOMAIN written


\* C6: a request of the knowledge-graph chain that ends the chain without a
\* URL (it returned no result and no retry follows, or it raised) is followed
\* by the code search for the same row: nothing escapes the run.
C6_ChainFailureFallsThrough ==
    [][ ( /\ pc \in {"search", "retry", "item", "claims"}
          /\ Len(calls') = Len(calls) + 1
          /\ NoResult(Last(calls').res)
          /\ pc' # "retry" )
        => ( pc' = "github" /\ idx' = idx /\ ~Truthy(url') ) ]_vars

\* C7: no failure while processing a row stops the run: the run is never
\* left by an exception, so every later row is reached and written returned.
C7_RunNeverAborts == pc # "aborted"

\* The resolver that produced the URL about to be downloaded
Source ==
    IF HasOverride(Row) THEN "override"
    ELSE IF calls # <<>> /\ Last(calls).fn = "wd_get_logo_filename" THEN "knowledge_graph"
    ELSE "code_repo"

RowAccounted(i) ==
    LET row == roster[i] IN
    \/ /\ RowCode(row) \in DOMAIN written
       /\ written[RowCode(row)] = RowFile(row)
       /\ RowFile(row) \in DOMAIN files
    \/ /\ outcome[i] = "failed"
       /\ RowCode(row) \notin DOMAIN written

ValidRows == {i \in 1..Len(roster) : RowValid(roster[i])}

\* C9 as stated: when the run has returned, every valid row is accounted for.
C9_EveryRowAccounted ==
    pc = "done" => \A i \in ValidRows : RowAccounted(i)

\* No two valid rows with different numbers carry the same code
CodesUnique ==
    \A i, j \in ValidRows :
        RowCode(roster[i]) = RowCode(roster[j]) => RowNum(roster[i]) = RowNum(roster[j])

\* C9 as amended: when the run has returned and no code is shared by two
\* valid rows with different numbers, every valid row is accounted for, and
\* fail counts exactly the rows that ended as failed.
C9_EveryRowAccountedUniqueCodes ==
    (pc = "done" /\ CodesUnique) =>
        /\ \A i \in ValidRows : RowAccounted(i)
        /\ fail = Cardinality({i \in ValidRows : outcome[i] = "failed"})

C9_Witness ==
    /\ pc = "done" /\ CodesUnique
    /\ \E i \in ValidRows : outcome[i] = "failed" /\ RowCode(roster[i]) \notin DOMAIN written
    /\ \E i \in ValidRows : outcome[i] \in {"logo", "placeholder"}

\* C10: no file at a canonical path is ever a partially written one.
C10_NoPartialFile == \A p \in DOMAIN files : files[p] # Partial

\* C11: once normalize_png has pasted, the canvas is target_px by target_px,
\* the resized image has its longer side equal to target_px and its shorter
\* side between 1 and target_px, the paste offsets are the floors of half the
\* slack, neither is negative, and the image lies inside the canvas.
C11_FitsCanvas ==
    npc \in {"pasted", "returned"} =>
        LET new_w == new_size[1]
            new_h == new_size[2]
            ox == offset[1]
            oy == offset[2]
        IN  /\ canvas = <<target, target>>
            /\ new_w = target \/ new_h = target
            /\ new_w \in 1..target /\ new_h \in 1..target
            /\ (im_size[1] >= im_size[2]) => new_w = target
            /\ (im_size[2] >= im_size[1]) => new_h = target
            /\ 2 * ox <= target - new_w /\ target - new_w <= 2 * ox + 1
            /\ 2 * oy <= target - new_h /\ target - new_h <= 2 * oy + 1
            /\ ox >= 0 /\ oy >= 0
            /\ ox + new_w <= target /\ oy + new_h <= target

\* A 300x100 image at 128 fills the width and is centred vertically
C11_Witness ==
    /\ npc = "returned"
    /\ im_size = <<300, 100>> /\ target = 128
    /\ new_size = <<128, 43>>
    /\ offset = <<0, 42>>

\* C12: within a run, a step that issues an outbound request is never taken
\* while the previous request of the run is still without its nap(), whether
\* that request belongs to the same row or to the row before.
C12_NapBetweenRequests ==
    [][ (Len(calls') = Len(calls) + 1) => ~napDue ]_vars

\* C13: of the runs that work on the same row at the same time, at most one
\* goes through the resolvers and the download, and the canonical file is
\* never a mix of two writes: it is absent, being written by one run, or
\* exactly the bytes one run wrote.
C13_CriticalSection ==
    /\ Cardinality(fetched) <= 1
    /\ \/ disk = None
       \/ \E d \in RaceData : \E n \in 0..Len(RaceBytes(d)) :
            disk = SubSeq(RaceBytes(d), 1, n)

\* C14: the failure counter goes up by one exactly on the steps where the
\* placeholder branch raises (the row is in the placeholder branch and the
\* step does not count a success); on such a step the success counter and
\* the mapping are left alone and the loop goes on with the next row. The
\* counter changes in no other way during a run.
C14_FailOnlyOnPlaceholderError ==
    [][ /\ (fail' = fail + 1) <=> (pc = "placeholder" /\ success' = success)
        /\ (fail' = fail + 1) => ( /\ success' = success
                                   /\ written' = written
                                   /\ pc' = "next"
                                   /\ idx' = idx
                                   /\ roster' = roster )
        /\ (fail' # fail) => (fail' = fail + 1 \/ run' # run) ]_vars

\* The first row failed in the placeholder branch, is not in the mapping, and
\* the second row was processed after it
C14_Witness ==
    /\ Len(roster) = 2
    /\ outcome[1] = "failed" /\ outcome[2] \in {"logo", "placeholder"}
    /\ fail = 1 /\ success = 1
    /\ RowCode(roster[1]) \notin DOMAIN written

\* C15 as stated: when bytes were downloaded and normalizing or writing them
\* raised, the row does not abort, no further request is issued for it, and
\* the placeholder is written at the canonical path, counted as a success and
\* recorded in the mapping.
C15_NormalizeFailureEndsInPlaceholder ==
    [][ /\ (pc = "normalize" /\ pc' # "next")
            => (pc' = "placeholder" /\ calls' = calls /\ idx' = idx
                /\ success' = success /\ fail' = fail /\ written' = written)
        /\ (pc = "placeholder" /\ Truthy(data))
            => ( /\ netRows' = netRows /\ napDue' = napDue
                 /\ pc' = "next" /\ idx' = idx
                 /\ files' = [p \in DOMAIN files \cup {outfile} |->
                                IF p = outfile THEN PlaceholderPng(code, px) ELSE files[p]]
                 /\ success' = success + 1 /\ fail' = fail
                 /\ outfile \in DOMAIN files'
                 /\ code \in DOMAIN written' /\ written'[code] = outfile ) ]_vars

\* C15 with the placeholder's own failure: after such a raise the row does
\* not abort and no further request is issued for it; the placeholder branch
\* runs next, and either writes the placeholder at the canonical path, counts
\* a success and records the row, or raises itself, and then the row is
\* counted as failed and is not recorded.
C15_NormalizeFailureGoesToPlaceholder ==
    [][ /\ (pc = "normalize" /\ pc' # "next")
            => (pc' = "placeholder" /\ calls' = calls /\ idx' = idx
                /\ success' = success /\ fail' = fail /\ written' = written)
        /\ (pc = "placeholder" /\ Truthy(data))
            => ( /\ netRows' = netRows /\ napDue' = napDue
                 /\ pc' = "next" /\ idx' = idx
                 /\ \/ /\ files' = [p \in DOMAIN files \cup {outfile} |->
                                       IF p = outfile THEN PlaceholderPng(code, px) ELSE files[p]]
                       /\ success' = success + 1 /\ fail' = fail
                       /\ code \in DOMAIN written' /\ written'[code] = outfile
                    \/ /\ fail' = fail + 1 /\ success' = success
                       /\ written' = written ) ]_vars

\* A row whose downloaded bytes could not be normalized ended with the
\* placeholder on disk, counted and recorded, after its single request
C15_Witness ==
    /\ pc = "next" /\ idx = 1
    /\ outcome[1] = "placeholder"
    /\ hitRows = {1}
    /\ HasOverride(roster[1])
    /\ files[RowFile(roster[1])] = PlaceholderPng(RowCode(roster[1]), px)
    /\ success = 1 /\ written[RowCode(roster[1])] = RowFile(roster[1])

CodeSearches == CallsOf({"github_tvlogos_search"})

\* C16: the code search is asked for hint first and for code second. A pass
\* that gets a URL ends the loop with that URL, so the later term is not
\* asked; a pass that gets none, a raised request included, goes on to the
\* next term; when the last term gets none there is no URL. No code search
\* is issued outside this loop.
C16_TermsInOrder ==
    [][ /\ (pc = "github") =>
             LET c == Last(calls') IN
             /\ Cardinality(CodeSearches) = term - 1
             /\ (term = 2) => (Last(calls).arg = hint /\ ~Truthy(Last(calls).res))
             /\ Len(calls') = Len(calls) + 1
             /\ c.fn = "github_tvlogos_search"
             /\ c.arg = (IF term = 1 THEN hint ELSE code)
             /\ ghRaised' => ~Truthy(c.res)
             /\ Truthy(c.res) => (pc' = "download" /\ url' = c.res)
             /\ (~Truthy(c.res) /\ term = 1) => (pc' = "github" /\ term' = 2)
             /\ (~Truthy(c.res) /\ term = 2) => (pc' = "download" /\ ~Truthy(url'))
        /\ (pc # "github" /\ Len(calls') = Len(calls) + 1)
             => Last(calls').fn # "github_tvlogos_search" ]_vars

\* The search for hint raised, and the search for code is about to be issued
C16_Witness ==
    /\ pc = "github" /\ term = 2
    /\ ghRaised
    /\ hint # code
    /\ Last(calls) = Call("github_tvlogos_search", hint, None)

\* C17: for a query answered with a ranked result list, github_tvlogos_search
\* returns the raw-content URL of the first result whose path is in a US
\* folder; with no such result, the raw-content URL of the first result;
\* with an empty list, no result.
C17_FirstUSElseFirst ==
    (gpc = "returned" /\ ~ghResp.raised) =>
        LET items == ghResp.body
            us == {k \in 1..Len(items) : IsUSPath(items[k].path)}
        IN  IF items = <<>> THEN raw_url = None
            ELSE IF us = {} THEN raw_url = RawUrl(items[1].html_url)
            ELSE \E k \in us : /\ \A j \in us : k <= j
                                /\ raw_url = RawUrl(items[k].html_url)

\* Three results, the first outside the US folders, the second and third in
\* two different ones: the URL of the second was returned
C17_Witness ==
    /\ gpc = "returned" /\ ~ghResp.raised
    /\ Len(ghResp.body) = 3
    /\ ~IsUSPath(ghResp.body[1].path)
    /\ IsUSPath(ghResp.body[2].path) /\ IsUSPath(ghResp.body[3].path)
    /\ ghResp.body[2].html_url # ghResp.body[3].html_url
    /\ raw_url = <<"https://", "raw.githubusercontent.com", "/tv-logo/tv-logos", "/",
                   "main/", "countries/US/espn.png">>

TitleSearches == CallsOf({"wp_search_title"})

\* C18: a row has at most two title searches; once the chain is past them,
\* there is a second one exactly when the first found no title and hint
\* differs from code, and the second is made with the raw code.
C18_RetryWithCode ==
    /\ Cardinality(TitleSearches) <= 2
    /\ (pc = "retry") => ( /\ Cardinality(TitleSearches) <= 1
                           /\ hint # code
                           /\ ~Truthy(title) )
    /\ (pc \in {"item", "github", "claims"} \/ (pc = "aborted" /\ Len(calls) >= 2))
         => ( /\ (Cardinality(TitleSearches) = 2)
                  <=> (~Truthy(calls[1].res) /\ hint # code /\ calls[1].fn = "wp_search_title")
              /\ (Cardinality(TitleSearches) = 2)
                  => (calls[2].fn = "wp_search_title" /\ calls[2].arg = code) )

\* The search for hint found nothing, hint differs from code, and the search
\* for code found a title
C18_Witness ==
    /\ pc = "item"
    /\ hint # code
    /\ calls = << Call("wp_search_title", hint, None), Call("wp_search_title", code, Title) >>

\* A column that is missing, empty or only white space
Blank(x) == ~Truthy(Strip(Or(x, <<>>)))

\* The step leaves everything but the loop position as it was and logs nothing
SkippedSilently ==
    /\ calls' = calls /\ netRows' = netRows /\ napDue' = napDue
    /\ files' = files
    /\ ~logged'
    /\ success' = success /\ fail' = fail
    /\ written' = written
    /\ pc' = "next" /\ idx' = idx + 1

\* C19 as stated: when the row the loop reaches has a missing or blank number
\* column or a missing or blank code column, the step issues no request,
\* creates no file, logs nothing, changes neither counter nor the mapping,
\* and leaves the loop at the next row.
C19_BlankRowSkipped ==
    [][ ( /\ pc = "next" /\ idx < Len(roster)
          /\ Blank(roster[idx + 1].number) \/ Blank(roster[idx + 1].code) )
        => SkippedSilently ]_vars

\* C19 with the code taken from the name column when the code column is
\* missing or empty: the row is skipped in that way when its number is
\* blank, or when the code so taken is blank.
C19_BlankRowSkippedUnlessNamed ==
    [][ ( /\ pc = "next" /\ idx < Len(roster)
          /\ \/ Blank(roster[idx + 1].number)
             \/ Blank(Or(roster[idx + 1].code, roster[idx + 1].name)) )
        => SkippedSilently ]_vars

\* A row with a blank number was skipped and the row after it was processed
C19_Witness ==
    /\ Len(roster) = 2
    /\ Blank(roster[1].number)
    /\ outcome[1] = "skipped"
    /\ outcome[2] \in {"logo", "placeholder"}
    /\ success = 1 /\ fail = 0
    /\ DOMAIN files = {RowFile(roster[2])}
    /\ DOMAIN written = {RowCode(roster[2])}

Downloads == CallsOf({"download"})

\* C20: the requests issued for a row are at most two title searches, one
\* entity lookup, one logo-claim lookup, two code searches and one download,
\* seven in all; a row with an override has no request but the download,
\* and has it once it is past the download step; no row downloads twice.
C20_BoundedRequests ==
    /\ Cardinality(CallsOf({"wp_search_title"})) <= 2
    /\ Cardinality(CallsOf({"wp_get_wikibase_item"})) <= 1
    /\ Cardinality(CallsOf({"wd_get_logo_filename"})) <= 1
    /\ Cardinality(CallsOf({"github_tvlogos_search"})) <= 2
    /\ Cardinality(Downloads) <= 1
    /\ Len(calls) <= 7
    /\ \A k \in 1..Len(calls) :
         calls[k].fn \in KGFunctions \cup {"github_tvlogos_search", "download"}
    /\ (pc \in {"download", "normalize", "placeholder"} /\ HasOverride(Row))
         => ( /\ \A k \in 1..Len(calls) : calls[k].fn = "download"
              /\ (pc # "download") => (Len(calls) = 1) )

\* A row that used all seven requests
C20_Witness ==
    /\ pc = "normalize"
    /\ Len(calls) = 7
    /\ Cardinality(CallsOf({"wp_search_title"})) = 2
    /\ Cardinality(CallsOf({"github_tvlogos_search"})) = 2
    /\ Last(calls).fn = "download"

\* The valid rows among those the loop has finished with
ValidDone == {i \in ValidRows : i <= idx}

CacheSkipped == {i \in ValidDone : outcome[i] = "cached"}

\* No two valid rows carry the same code
CodesDistinct ==
    \A i, j \in ValidRows : RowCode(roster[i]) = RowCode(roster[j]) => i = j

\* Whole files that were not in the output directory when the run started
NewFiles == {p \in DOMAIN files : p \notin DOMAIN files0 /\ files[p] # Partial}

\* C21: whenever the loop stands between two rows, or the run has returned,
\* success plus fail plus the number of cache-skipped rows is the number of
\* valid rows finished so far; success is the number of rows this run wrote
\* a file for, cache hits not among them; and when no two valid rows share a
\* code, written has as many entries as success plus the cache-skipped rows.
C21_AccountingConsistent ==
    (pc \in {"next", "done"}) =>
        /\ success + fail + Cardinality(CacheSkipped) = Cardinality(ValidDone)
        /\ success = Cardinality({i \in ValidDone : outcome[i] \in {"logo", "placeholder"}})
        /\ success = Cardinality(NewFiles)
        /\ CodesDistinct =>
              Cardinality(DOMAIN written) = success + Cardinality(CacheSkipped)

\* A second run over two rows with different codes has returned: one row was
\* skipped on the cache, the other was written by this run
C21_Witness ==
    /\ pc = "done" /\ run = 2
    /\ Len(roster) = 2 /\ CodesDistinct
    /\ Cardinality(CacheSkipped) = 1
    /\ success = 1 /\ fail = 0
    /\ Cardinality(DOMAIN written) = 2

====
